---- MODULE Spec2Model ----
(***************************************************************************)
(* Model of the cardinality-estimation-quality scripts:                    *)
(*   selectivity_quality.py  QueryResult.explain / _parse_cardinalities,   *)
(*                           q_error                                       *)
(*   plan_space.py           compare_query_times, the summary printed by   *)
(*                           the main program                              *)
(*   slow_down.py            plot_ratio_histogram                          *)
(* Python dicts are functions whose DOMAIN is the set of keys present, so  *)
(* that d[k] on a missing key is a KeyError.  Python exceptions are a      *)
(* "raised" field of the value an operator returns.                        *)
(***************************************************************************)
EXTENDS Integers, Sequences, FiniteSets, TLC

VARIABLES
    pc,              \* position of the program being run
    raised,          \* the exception that reached the caller, or "none"
    \* selectivity_quality.py, QueryResult
    explain_result,  \* what db.explain(query) answered (the input)
    query_plan,      \* QueryResult.query_plan
    planning_time,   \* QueryResult.planning_time
    execution_time,  \* QueryResult.execution_time
    total_cost,      \* QueryResult.total_cost
    max_join_level,  \* QueryResult.max_join_level
    cardinalities,   \* QueryResult.cardinalities
    \* selectivity_quality.py, q_error
    q_estimated,     \* the argument estimated
    q_actual,        \* the argument actual
    q_value,         \* the value returned
    \* plan_space.py and slow_down.py
    query_results,   \* the mappings run_queries returned, query_results_dir1..
    ratios,          \* the arrays compare_query_times returned, ratios1..
    printed,         \* what the main program has printed
    proportions,     \* the bar heights plot_ratio_histogram has drawn
    \* plan_space.py, run_queries
    tree_shape,      \* the argument tree_shape
    queries,         \* the argument queries
    connection,      \* the psycopg2 connection: "none", "open" or "closed"
    statements,      \* the statements executed on the connection, in order
    local_results    \* the local query_results being filled

queryVars == <<explain_result, query_plan, planning_time, execution_time,
               total_cost, max_join_level, cardinalities>>

qVars == <<q_estimated, q_actual, q_value>>

runVars == <<query_results, ratios, printed, proportions>>

connVars == <<tree_shape, queries, connection, statements, local_results>>

vars == <<pc, raised, queryVars, qVars, runVars, connVars>>

\* Python's None is the empty tuple, and an attribute holding the number v is
\* <<v>>, so that the two compare
None == <<>>

Some(v) == <<v>>

QueryIdle ==
    /\ explain_result = None
    /\ query_plan = None
    /\ planning_time = None
    /\ execution_time = None
    /\ total_cost = None
    /\ max_join_level = None
    /\ cardinalities = None

QIdle == q_estimated = None /\ q_actual = None /\ q_value = None

RunIdle == query_results = None /\ ratios = None /\ printed = None /\ proportions = None

ConnIdle ==
    /\ tree_shape = None
    /\ queries = None
    /\ connection = "none"
    /\ statements = None
    /\ local_results = None

(***************************************************************************)
(* Bounds of the explored plans.                                           *)
(***************************************************************************)
MaxNodes == 3

NodeTypes == {"Seq Scan", "Hash Join", "Nested Loop", "Merge Join", "Aggregate"}

RowPairs == {<<10, 3>>}

(***************************************************************************)
(* Plan trees, as decoded from the JSON of EXPLAIN.                        *)
(***************************************************************************)
PlanNode(t, rows) ==
    ("Node Type" :> t) @@ ("Plan Rows" :> rows[1]) @@ ("Actual Rows" :> rows[2])

WithPlans(node, plans) == node @@ ("Plans" :> plans)

RECURSIVE TreesOfSize(_)
RECURSIVE ForestsOfSize(_)

\* every sequence of trees holding n nodes in all
ForestsOfSize(n) ==
    IF n = 0 THEN {<<>>}
    ELSE UNION {{<<t>> \o f : t \in TreesOfSize(s), f \in ForestsOfSize(n - s)} :
                s \in 1..n}

\* every valid plan of exactly n nodes; a node without children either has
\* no 'Plans' key or an empty 'Plans' list
TreesOfSize(n) ==
    LET nodes == {PlanNode(t, r) : t \in NodeTypes, r \in RowPairs}
    IN  IF n = 1
        THEN nodes \cup {WithPlans(nd, <<>>) : nd \in nodes}
        ELSE {WithPlans(nd, f) : nd \in nodes, f \in ForestsOfSize(n - 1)}

\* every valid plan of at most maxNodes nodes
ValidPlans(maxNodes) == UNION {TreesOfSize(n) : n \in 1..maxNodes}

(***************************************************************************)
(* QueryResult._parse_cardinalities                                        *)
(***************************************************************************)
EmptyCardinalities ==
    [node_type |-> <<>>, join_level |-> <<>>, estimated |-> <<>>, actual |-> <<>>]

\* the four "+=" of the loop body
Extend(c, sub) ==
    [node_type  |-> c.node_type \o sub.node_type,
     join_level |-> c.join_level \o sub.join_level,
     estimated  |-> c.estimated \o sub.estimated,
     actual     |-> c.actual \o sub.actual]

\* the list of line 130 with its last entry forgotten
JoinTypesWithoutMerge == {"Hash Join", "Nested Loop"}

JoinTypes == {"Hash Join", "Nested Loop", "Merge Join"}

\* Python's max() of a non-empty list
ListMax(l) == CHOOSE m \in {l[i] : i \in DOMAIN l} : \A i \in DOMAIN l : l[i] <= m

Returned(c, mjl) == [raised |-> "none", cardinalities |-> c, max_join_level |-> mjl]

Raised(e, mjl) ==
    [raised |-> e, cardinalities |-> EmptyCardinalities, max_join_level |-> mjl]

\* the "except KeyError" block, entered with the lists as the try block left
\* them; a KeyError raised in here leaves the call
LeafBranch(query_plan_, c, mjl) ==
    IF "Node Type" \notin DOMAIN query_plan_ THEN Raised("KeyError", mjl)
    ELSE IF query_plan_["Node Type"] = "Aggregate" THEN Returned(c, mjl)
    ELSE IF "Plan Rows" \notin DOMAIN query_plan_ THEN Raised("KeyError", mjl)
    ELSE IF "Actual Rows" \notin DOMAIN query_plan_ THEN Raised("KeyError", mjl)
    ELSE Returned(
            [node_type  |-> Append(c.node_type, query_plan_["Node Type"]),
             join_level |-> Append(c.join_level, 0),
             estimated  |-> Append(c.estimated, query_plan_["Plan Rows"]),
             actual     |-> Append(c.actual, query_plan_["Actual Rows"])],
            mjl)

\* the statements of the try block that follow the loop
ParentBranch(query_plan_, c, top_level_node) ==
    IF c.join_level = <<>> THEN Raised("ValueError", None)
    ELSE
    LET max_join_level_ == ListMax(c.join_level)
        mjl == IF top_level_node THEN Some(max_join_level_) ELSE None
    IN  IF "Node Type" \notin DOMAIN query_plan_ THEN LeafBranch(query_plan_, c, mjl)
        ELSE IF query_plan_["Node Type"] = "Aggregate" THEN Returned(c, mjl)
        ELSE
        LET c1 == [c EXCEPT !.node_type = Append(@, query_plan_["Node Type"])]
        IN  IF "Plan Rows" \notin DOMAIN query_plan_ THEN LeafBranch(query_plan_, c1, mjl)
            ELSE
            LET c2 == [c1 EXCEPT !.estimated = Append(@, query_plan_["Plan Rows"])]
            IN  IF "Actual Rows" \notin DOMAIN query_plan_
                THEN LeafBranch(query_plan_, c2, mjl)
                ELSE
                LET c3 == [c2 EXCEPT !.actual = Append(@, query_plan_["Actual Rows"])]
                IN  Returned(
                        [c3 EXCEPT !.join_level =
                            Append(@, IF query_plan_["Node Type"] \in JoinTypes
                                      THEN max_join_level_ + 1
                                      ELSE max_join_level_)],
                        mjl)

RECURSIVE ParseCardinalities(_, _)
RECURSIVE ParseSubplans(_, _, _)

\* the loop over query_plan['Plans'], from subplan i on, c gathered so far
ParseSubplans(plans, i, c) ==
    IF i > Len(plans) THEN Returned(c, None)
    ELSE LET sub == ParseCardinalities(plans[i], FALSE)
         IN  IF sub.raised # "none"
             THEN [raised |-> sub.raised, cardinalities |-> c, max_join_level |-> None]
             ELSE ParseSubplans(plans, i + 1, Extend(c, sub.cardinalities))

ParseCardinalities(query_plan_, top_level_node) ==
    IF "Plans" \notin DOMAIN query_plan_
    THEN LeafBranch(query_plan_, EmptyCardinalities, None)
    ELSE LET loop == ParseSubplans(query_plan_["Plans"], 1, EmptyCardinalities)
         IN  CASE loop.raised = "KeyError" ->
                    LeafBranch(query_plan_, loop.cardinalities, None)
               [] loop.raised = "ValueError" -> Raised("ValueError", None)
               [] OTHER -> ParentBranch(query_plan_, loop.cardinalities, top_level_node)

\* pd.DataFrame(dict of lists): the columns must have one length
DataFrame(c) ==
    IF /\ Len(c.node_type) = Len(c.join_level)
       /\ Len(c.node_type) = Len(c.estimated)
       /\ Len(c.node_type) = Len(c.actual)
    THEN [raised |-> "none", frame |-> c]
    ELSE [raised |-> "ValueError", frame |-> None]

(***************************************************************************)
(* QueryResult.explain                                                     *)
(***************************************************************************)
ExplainResult(plan) ==
    ("Plan" :> (plan @@ ("Total Cost" :> 100)))
        @@ ("Planning Time" :> 1) @@ ("Execution Time" :> 2)

Explain ==
    /\ pc = "created"
    /\ pc' = "explained"
    /\ query_plan' = explain_result["Plan"]
    /\ planning_time' = Some(explain_result["Planning Time"])
    /\ execution_time' = Some(explain_result["Execution Time"])
    /\ IF "Total Cost" \notin DOMAIN explain_result["Plan"]
       THEN /\ raised' = "KeyError"
            /\ UNCHANGED <<total_cost, max_join_level, cardinalities>>
       ELSE LET parsed == ParseCardinalities(explain_result["Plan"], TRUE)
                df == DataFrame(parsed.cardinalities)
            IN  /\ total_cost' = Some(explain_result["Plan"]["Total Cost"])
                /\ max_join_level' = parsed.max_join_level
                /\ IF parsed.raised # "none"
                   THEN raised' = parsed.raised /\ UNCHANGED cardinalities
                   ELSE IF df.raised # "none"
                   THEN raised' = df.raised /\ UNCHANGED cardinalities
                   ELSE raised' = "none" /\ cardinalities' = df.frame
    /\ UNCHANGED <<explain_result, qVars, runVars, connVars>>

\* QueryResult.__init__ leaves every statistic at the class default None
InitQuery(plans) ==
    /\ pc = "created"
    /\ explain_result \in {ExplainResult(p) : p \in plans}
    /\ query_plan = None
    /\ planning_time = None
    /\ execution_time = None
    /\ total_cost = None
    /\ max_join_level = None
    /\ cardinalities = None
    /\ raised = "none"
    /\ QIdle
    /\ RunIdle
    /\ ConnIdle

Init == InitQuery(ValidPlans(MaxNodes))

Next == Explain

Spec == Init /\ [][Next]_vars

(***************************************************************************)
(* Numbers.  A Python float is the rational num/den, kept in lowest terms  *)
(* with den > 0; nan is 0/0 and inf is 1/0.                                *)
(***************************************************************************)
RECURSIVE GCD(_, _)
GCD(a, b) == IF b = 0 THEN a ELSE GCD(b, a % b)

Abs(x) == IF x < 0 THEN -x ELSE x

Rat(n, d) ==
    LET g == GCD(Abs(n), Abs(d))
        sgn == IF d < 0 THEN -1 ELSE 1
    IN  IF g = 0 THEN [num |-> 0, den |-> 0]
        ELSE [num |-> sgn * (n \div g), den |-> sgn * (d \div g)]

Whole(n) == [num |-> n, den |-> 1]

NaN == [num |-> 0, den |-> 0]

Inf == [num |-> 1, den |-> 0]

RLess(a, b) == a.num * b.den < b.num * a.den

RLeq(a, b) == a.num * b.den <= b.num * a.den

\* Python's max(a, b): b only when it is greater
RMax(a, b) == IF RLess(a, b) THEN b ELSE a

RAdd(a, b) == Rat(a.num * b.den + b.num * a.den, a.den * b.den)

RSub(a, b) == Rat(a.num * b.den - b.num * a.den, a.den * b.den)

RMul(a, b) == Rat(a.num * b.num, a.den * b.den)

Value(v) == [raised |-> "none", value |-> v]

Raise(e) == [raised |-> e, value |-> None]

\* Python's a / b on floats
TrueDiv(a, b) ==
    IF b.num = 0 THEN Raise("ZeroDivisionError")
    ELSE Value(Rat(a.num * b.den, a.den * b.num))

(***************************************************************************)
(* q_error                                                                 *)
(***************************************************************************)
MaxRowNum == 5

MaxRowDen == 2

ExampleRows == {10, 50, 100}

RowValues ==
    {Rat(n, d) : n \in 0..MaxRowNum, d \in 1..MaxRowDen}
        \cup {Whole(n) : n \in ExampleRows}

\* the divisor used as it came
NotFloored(x) == x

\* max(x, 1), "prevent division by zero"
FloorAtOne(x) == RMax(x, Whole(1))

\* the branch "overestimation"
Overestimation(estimated, actual) == TrueDiv(estimated, FloorAtOne(actual))

\* the branch "underestimation" without its "* -1"
UnderestimationUnsigned(estimated, actual) == TrueDiv(actual, FloorAtOne(estimated))

\* the branch "underestimation"
Underestimation(estimated, actual) ==
    LET q == TrueDiv(actual, FloorAtOne(estimated))
    IN  IF q.raised # "none" THEN q ELSE Value(RMul(q.value, Whole(-1)))

q_error(estimated, actual) ==
    IF RLess(actual, estimated)
    THEN Overestimation(estimated, actual)
    ELSE Underestimation(estimated, actual)

QError ==
    /\ pc = "q_error"
    /\ pc' = "q_returned"
    /\ LET r == q_error(q_estimated, q_actual)
       IN  raised' = r.raised /\ q_value' = r.value
    /\ UNCHANGED <<q_estimated, q_actual, queryVars, runVars, connVars>>

InitQError ==
    /\ pc = "q_error"
    /\ raised = "none"
    /\ q_estimated \in RowValues
    /\ q_actual \in RowValues
    /\ q_value = None
    /\ QueryIdle
    /\ RunIdle
    /\ ConnIdle

SpecQError == InitQError /\ [][QError]_vars

(***************************************************************************)
(* compare_query_times.  A dict is the sequence of its items in insertion  *)
(* order, [name, time], no name twice.                                     *)
(***************************************************************************)
MaxQueries == 2

QueryIds == <<"q1", "q2", "q3">>

CompareTimes == {0, 1, 2, 4, 9}

Item(name, time) == [name |-> name, time |-> Whole(time)]

\* the dicts of exactly n items whose times are drawn from T
RECURSIVE DictsOfSize(_, _)
DictsOfSize(n, T) ==
    IF n = 0 THEN {<<>>}
    ELSE {Append(d, Item(QueryIds[k], t)) :
            d \in DictsOfSize(n - 1, T), k \in DOMAIN QueryIds, t \in T}

Keys(d) == {d[i].name : i \in DOMAIN d}

IsDict(d) == Cardinality(Keys(d)) = Len(d)

Dicts(maxLen, T) ==
    {d \in UNION {DictsOfSize(n, T) : n \in 0..maxLen} : IsDict(d)}

\* a dict that is only read with get(): its items in the order of QueryIds
InOrder(d) ==
    \A i, j \in DOMAIN d :
        i < j => \E a, b \in DOMAIN QueryIds :
                    a < b /\ QueryIds[a] = d[i].name /\ QueryIds[b] = d[j].name

\* d[name], for a name that d holds
Lookup(d, name) == d[CHOOSE i \in DOMAIN d : d[i].name = name].time

\* the ratio taken the wrong way round
TimeRatioInverted(time_dir1, time_dir2) == TrueDiv(time_dir2, time_dir1)

\* time_ratio = time_dir1 / time_dir2
TimeRatio(time_dir1, time_dir2) == TrueDiv(time_dir1, time_dir2)

RECURSIVE CompareLoop(_, _, _, _)
CompareLoop(query_results_dir1, query_results_dir2, i, ratios_) ==
    IF i > Len(query_results_dir1) THEN Value(ratios_)
    ELSE LET query_name == query_results_dir1[i].name
             time_dir1 == query_results_dir1[i].time
         IN  IF query_name \notin Keys(query_results_dir2)
             THEN CompareLoop(query_results_dir1, query_results_dir2, i + 1, ratios_)
             ELSE LET time_ratio == TimeRatio(time_dir1,
                                              Lookup(query_results_dir2, query_name))
                  IN  IF time_ratio.raised # "none" THEN Raise(time_ratio.raised)
                      ELSE CompareLoop(query_results_dir1, query_results_dir2, i + 1,
                                       Append(ratios_, time_ratio.value))

\* np.array(ratios) holds the floats of the list, in the order of the list
compare_query_times(query_results_dir1, query_results_dir2) ==
    CompareLoop(query_results_dir1, query_results_dir2, 1, <<>>)

\* ratios = compare_query_times(query_results_dir1, query_results_dir2)
CompareQueryTimes ==
    /\ pc = "compare"
    /\ LET r == compare_query_times(query_results[1], query_results[2])
       IN  IF r.raised # "none"
           THEN pc' = "exit" /\ raised' = r.raised /\ UNCHANGED ratios
           ELSE pc' = "compared" /\ raised' = "none" /\ ratios' = <<r.value>>
    /\ UNCHANGED <<query_results, printed, proportions, queryVars, qVars, connVars>>

InitCompare ==
    /\ pc = "compare"
    /\ raised = "none"
    /\ query_results \in
          {<<a, b>> : a \in Dicts(MaxQueries, CompareTimes),
                      b \in {d \in Dicts(Len(QueryIds), CompareTimes) : InOrder(d)}}
    /\ ratios = None
    /\ printed = None
    /\ proportions = None
    /\ QueryIdle
    /\ QIdle
    /\ ConnIdle

SpecCompare == InitCompare /\ [][CompareQueryTimes]_vars

(***************************************************************************)
(* The main program of plan_space.py, from the four runs on: the three     *)
(* comparisons and the twelve print statements.  The four mappings come    *)
(* from run_queries over one dict of queries, so they hold the same names  *)
(* in the same order.                                                      *)
(***************************************************************************)
MainTimes == {0, 1, 2}

WithTimes(d, times) == [i \in DOMAIN d |-> [name |-> d[i].name, time |-> Whole(times[i])]]

\* the four runs over every dict of at most maxLen queries
RunsOfMain(maxLen) ==
    {<<WithTimes(d, t1), WithTimes(d, t2), WithTimes(d, t3), WithTimes(d, t4)>> :
        d \in Dicts(maxLen, {0}),
        t1 \in [1..maxLen -> MainTimes], t2 \in [1..maxLen -> MainTimes],
        t3 \in [1..maxLen -> MainTimes], t4 \in [1..maxLen -> MainTimes]}

\* lines 106-108; the first comparison that raises ends the program
MainCompare ==
    /\ pc = "main_compare"
    /\ LET ratios1 == compare_query_times(query_results[1], query_results[2])
           ratios2 == compare_query_times(query_results[1], query_results[3])
           ratios3 == compare_query_times(query_results[1], query_results[4])
       IN  IF ratios1.raised # "none"
           THEN pc' = "exit" /\ raised' = ratios1.raised /\ UNCHANGED ratios
           ELSE IF ratios2.raised # "none"
           THEN pc' = "exit" /\ raised' = ratios2.raised /\ UNCHANGED ratios
           ELSE IF ratios3.raised # "none"
           THEN pc' = "exit" /\ raised' = ratios3.raised /\ UNCHANGED ratios
           ELSE /\ pc' = "main_print"
                /\ raised' = "none"
                /\ ratios' = <<ratios1.value, ratios2.value, ratios3.value>>
    /\ UNCHANGED <<query_results, printed, proportions, queryVars, qVars, connVars>>

Sorted(a) == SortSeq(a, RLess)

\* np.median: of an empty array nan (with a RuntimeWarning)
Median(a) ==
    LET n == Len(a)
        sa == Sorted(a)
    IN  IF n = 0 THEN {Value(NaN)}
        ELSE IF n % 2 = 1 THEN {Value(sa[(n + 1) \div 2])}
        ELSE {Value(RMul(RAdd(sa[n \div 2], sa[n \div 2 + 1]), Rat(1, 2)))}

\* np.percentile(a, q), linear interpolation between the two nearest ranks;
\* of an empty array it is nan or an IndexError, as the numpy release has it
Percentile(a, q) ==
    LET n == Len(a)
        sa == Sorted(a)
        lo == ((n - 1) * q) \div 100
        frac == Rat(((n - 1) * q) % 100, 100)
    IN  IF n = 0 THEN {Value(NaN), Raise("IndexError")}
        ELSE IF lo + 2 > n THEN {Value(sa[lo + 1])}
        ELSE {Value(RAdd(sa[lo + 1], RMul(frac, RSub(sa[lo + 2], sa[lo + 1]))))}

\* np.max: "zero-size array to reduction operation maximum which has no identity"
Maximum(a) ==
    IF Len(a) = 0 THEN {Raise("ValueError")}
    ELSE {Value(Sorted(a)[Len(a)])}

Headings == <<"default vs left", "default vs right", "default vs zig-zag">>

\* the block of four print statements the program is in, and the statement
BlockNo == Len(printed) \div 4 + 1

StatementNo == Len(printed) % 4

AfterPrint == IF Len(printed) + 1 = 4 * Len(Headings) THEN "exit" ELSE "main_print"

\* print("default vs left") and its like
PrintHeading ==
    /\ pc = "main_print"
    /\ StatementNo = 0
    /\ printed' = Append(printed, [text |-> Headings[BlockNo]])
    /\ pc' = AfterPrint
    /\ UNCHANGED <<raised, query_results, ratios, proportions, queryVars, qVars, connVars>>

\* print(text, statistic): the statistic is computed first
PrintStatistic(text, outcomes) ==
    /\ pc = "main_print"
    /\ \E r \in outcomes :
          IF r.raised # "none"
          THEN pc' = "exit" /\ raised' = r.raised /\ UNCHANGED printed
          ELSE /\ printed' = Append(printed, [text |-> text, value |-> r.value])
               /\ pc' = AfterPrint
               /\ UNCHANGED raised
    /\ UNCHANGED <<query_results, ratios, proportions, queryVars, qVars, connVars>>

PrintMedian == StatementNo = 1 /\ PrintStatistic("median: ", Median(ratios[BlockNo]))

PrintPercentile == StatementNo = 2 /\ PrintStatistic("95%: ", Percentile(ratios[BlockNo], 95))

PrintMax == StatementNo = 3 /\ PrintStatistic("max: ", Maximum(ratios[BlockNo]))

InitMain ==
    /\ pc = "main_compare"
    /\ raised = "none"
    /\ query_results \in RunsOfMain(MaxQueries)
    /\ ratios = None
    /\ printed = <<>>
    /\ proportions = None
    /\ QueryIdle
    /\ QIdle
    /\ ConnIdle

NextMain == MainCompare \/ PrintHeading \/ PrintMedian \/ PrintPercentile \/ PrintMax

SpecMain == InitMain /\ [][NextMain]_vars

(***************************************************************************)
(* plot_ratio_histogram, as the main program of slow_down.py calls it on   *)
(* the ratios of a comparison.                                             *)
(***************************************************************************)
MaxRatios == 4

RatioValues ==
    {Rat(2, 10), Rat(3, 10), Rat(5, 10), Rat(9, 10), Whole(1), Rat(11, 10),
     Whole(2), Whole(10), Whole(50), Whole(100)}

RECURSIVE ArraysOfSize(_)
ArraysOfSize(n) ==
    IF n = 0 THEN {<<>>}
    ELSE {Append(a, r) : a \in ArraysOfSize(n - 1), r \in RatioValues}

\* bins = [0.3, 0.9, 1.1, 2, 10, 100, np.inf]
Bins == <<Rat(3, 10), Rat(9, 10), Rat(11, 10), Whole(2), Whole(10), Whole(100), Inf>>

\* a.searchsorted(edge, 'left') and (edge, 'right') of the sorted array: the
\* number of elements below the edge, and of those not above it
SearchSortedRight(a, edge) == Cardinality({i \in DOMAIN a : RLeq(a[i], edge)})

\* the inner edges searched from the right, like the last one
SearchSortedLeftInclusive(a, edge) == Cardinality({i \in DOMAIN a : RLeq(a[i], edge)})

SearchSortedLeft(a, edge) == Cardinality({i \in DOMAIN a : RLess(a[i], edge)})

\* np.histogram(a, bins): the differences of the cumulative counts at the
\* edges, every edge taken from the left and the last one from the right
Histogram(a, bins) ==
    LET cum_n == [i \in DOMAIN bins |->
                    IF i < Len(bins) THEN SearchSortedLeft(a, bins[i])
                    ELSE SearchSortedRight(a, bins[i])]
    IN  [i \in 1..(Len(bins) - 1) |-> cum_n[i + 1] - cum_n[i]]

\* hist / total_elements * 100, numpy's division: 0 / 0 is nan
Proportions(hist, total_elements) ==
    [i \in DOMAIN hist |-> Rat(hist[i] * 100, total_elements)]

PlotRatioHistogram ==
    /\ pc = "plot"
    /\ pc' = "plotted"
    /\ proportions' = Proportions(Histogram(ratios[1], Bins), Len(ratios[1]))
    /\ UNCHANGED <<raised, query_results, ratios, printed, queryVars, qVars, connVars>>

InitHistogram ==
    /\ pc = "plot"
    /\ raised = "none"
    /\ query_results = None
    /\ ratios \in {<<a>> : a \in UNION {ArraysOfSize(n) : n \in 0..MaxRatios}}
    /\ printed = None
    /\ proportions = None
    /\ QueryIdle
    /\ QIdle
    /\ ConnIdle

SpecHistogram == InitHistogram /\ [][PlotRatioHistogram]_vars

(***************************************************************************)
(* run_queries of plan_space.py, statement by statement.  What the         *)
(* database does with a statement is its own: it answers or it fails.      *)
(***************************************************************************)
TreeShapes == {"default", "left", "right", "zig-zag", "bushy", "Left"}

\* the dicts of at most maxLen queries, query name -> SQL text
QueryDicts(maxLen) ==
    {[i \in DOMAIN d |-> [name |-> d[i].name, sql |-> "SELECT " \o d[i].name]] :
        d \in Dicts(maxLen, {0})}

\* a check that lets every selector through
AcceptsAnyTreeShape(tree_shape_) == TRUE

\* the condition of line 25, not negated
RecognizedTreeShape(tree_shape_) ==
    \/ tree_shape_ = "default"
    \/ tree_shape_ = "left"
    \/ tree_shape_ = "right"
    \/ tree_shape_ = "zig-zag"

Statement(prefix, text) == [prefix |-> prefix, text |-> text]

SetPrefix == "SET pg_hint_plan.dp_tree_shape to "

ExplainPrefix == "EXPLAIN (ANALYZE, COSTS, VERBOSE, BUFFERS, FORMAT JSON) "

runUnchanged == <<queryVars, qVars, ratios, proportions>>

\* connection = psycopg2.connect(pg_url)
Connect ==
    /\ pc = "run_queries"
    /\ \/ pc' = "run_check" /\ connection' = "open" /\ UNCHANGED raised
       \/ pc' = "exit" /\ raised' = "OperationalError" /\ UNCHANGED connection
    /\ UNCHANGED <<tree_shape, queries, statements, local_results, query_results,
                   printed, runUnchanged>>

\* lines 25-27: an unknown selector prints the error and ends the process
CheckTreeShape ==
    /\ pc = "run_check"
    /\ IF ~RecognizedTreeShape(tree_shape)
       THEN /\ printed' = Append(printed,
                    [text |-> "error, tree shape must be default, left, right or zig-zag"])
            /\ pc' = "os_exit"
       ELSE /\ pc' = "run_set"
            /\ UNCHANGED printed
    /\ UNCHANGED <<raised, connVars, query_results, runUnchanged>>

\* lines 29-34: the SET statement, the commit and query_results = {}
SetTreeShape ==
    /\ pc = "run_set"
    /\ statements' = Append(statements, Statement(SetPrefix, tree_shape \o ";"))
    /\ \/ pc' = "run_loop" /\ local_results' = <<>> /\ UNCHANGED raised
       \/ pc' = "exit" /\ raised' = "DatabaseError" /\ UNCHANGED local_results
    /\ UNCHANGED <<tree_shape, queries, connection, query_results, printed, runUnchanged>>

\* one turn of the loop of lines 36-48
RunQuery ==
    /\ pc = "run_loop"
    /\ Len(local_results) < Len(queries)
    /\ LET query == queries[Len(local_results) + 1]
           running == [text |-> "Running query: " \o query.name]
       IN  /\ statements' = Append(statements, Statement(ExplainPrefix, query.sql))
           /\ \/ \E elapsed_time \in MainTimes :
                    /\ local_results' = Append(local_results, Item(query.name, elapsed_time))
                    /\ printed' = printed \o
                          <<running, [text |-> "Query " \o query.name \o " finished",
                                      value |-> Whole(elapsed_time)]>>
                    /\ UNCHANGED <<pc, raised>>
              \/ /\ pc' = "exit"
                 /\ raised' = "DatabaseError"
                 /\ printed' = Append(printed, running)
                 /\ UNCHANGED local_results
    /\ UNCHANGED <<tree_shape, queries, connection, query_results, runUnchanged>>

\* lines 50-51: connection.close() and return query_results
ReturnResults ==
    /\ pc = "run_loop"
    /\ Len(local_results) = Len(queries)
    /\ connection' = "closed"
    /\ query_results' = <<local_results>>
    /\ pc' = "run_returned"
    /\ UNCHANGED <<raised, tree_shape, queries, statements, local_results, printed,
                   runUnchanged>>

InitRunQueries ==
    /\ pc = "run_queries"
    /\ raised = "none"
    /\ tree_shape \in TreeShapes
    /\ queries \in QueryDicts(MaxQueries)
    /\ connection = "none"
    /\ statements = <<>>
    /\ local_results = None
    /\ query_results = None
    /\ ratios = None
    /\ printed = <<>>
    /\ proportions = None
    /\ QueryIdle
    /\ QIdle

NextRunQueries == Connect \/ CheckTreeShape \/ SetTreeShape \/ RunQuery \/ ReturnResults

SpecRunQueries == InitRunQueries /\ [][NextRunQueries]_vars

(***************************************************************************)
(* Plans with a field missing: one node of a valid plan has lost one of    *)
(* 'Node Type', 'Plan Rows', 'Actual Rows'.                                *)
(***************************************************************************)
ExpectedFields == {"Node Type", "Plan Rows", "Actual Rows"}

Without(d, k) == [x \in DOMAIN d \ {k} |-> d[x]]

RECURSIVE Malformations(_)
Malformations(plan) ==
    {Without(plan, k) : k \in ExpectedFields}
        \cup (IF "Plans" \notin DOMAIN plan THEN {}
              ELSE UNION {{[plan EXCEPT !["Plans"] = [@ EXCEPT ![i] = m]] :
                                m \in Malformations(plan["Plans"][i])} :
                          i \in DOMAIN plan["Plans"]})

MalformedPlans(maxNodes) == UNION {Malformations(p) : p \in ValidPlans(maxNodes)}

InitMalformed == InitQuery(MalformedPlans(MaxNodes))

SpecMalformed == InitMalformed /\ [][Next]_vars

(***************************************************************************)
(* What the plan itself says, read from the tree and not from the parse.   *)
(***************************************************************************)
SubplansOf(node) == IF "Plans" \in DOMAIN node THEN node["Plans"] ELSE <<>>

SetMax(S) == CHOOSE m \in S : \A x \in S : x <= m

RECURSIVE SeqSum(_)
SeqSum(l) == IF l = <<>> THEN 0 ELSE Head(l) + SeqSum(Tail(l))

RECURSIVE Flatten(_)
Flatten(ll) == IF ll = <<>> THEN <<>> ELSE Head(ll) \o Flatten(Tail(ll))

RECURSIVE NonAggregateCount(_)
NonAggregateCount(node) ==
    (IF node["Node Type"] # "Aggregate" THEN 1 ELSE 0)
        + SeqSum([i \in DOMAIN SubplansOf(node) |-> NonAggregateCount(SubplansOf(node)[i])])

\* the level L(node) of the plan's definition
RECURSIVE Level(_)
Level(node) ==
    LET kids == SubplansOf(node)
    IN  IF kids = <<>> THEN 0
        ELSE LET m == SetMax({Level(kids[i]) : i \in DOMAIN kids})
             IN  IF node["Node Type"] \in {"Hash Join", "Nested Loop", "Merge Join"}
                 THEN m + 1 ELSE m

\* the nodes of the plan, children first and in child order, then the node
RECURSIVE PostOrder(_)
PostOrder(node) ==
    Flatten([i \in DOMAIN SubplansOf(node) |-> PostOrder(SubplansOf(node)[i])])
        \o <<node>>

IsRecorded(node) == node["Node Type"] # "Aggregate"

RecordedNodes(node) == SelectSeq(PostOrder(node), IsRecorded)

Explained == pc = "explained"

ColumnLengths ==
    {Len(cardinalities.node_type), Len(cardinalities.join_level),
     Len(cardinalities.estimated), Len(cardinalities.actual)}

\* C1: for every valid plan, _parse_cardinalities returns a table whose four
\* columns all have as many entries as the plan has non-aggregate nodes.
C1_OneRecordPerNonAggregateNode ==
    Explained =>
        /\ raised = "none"
        /\ ColumnLengths = {NonAggregateCount(query_plan)}

\* C2: whenever a table is returned for a valid plan, its records are the
\* plan's non-aggregate nodes in post-order, and the join_level of each is
\* the level L of its node.
C2_JoinLevelIsRecursiveLevel ==
    (Explained /\ raised = "none") =>
        LET nodes == RecordedNodes(query_plan)
        IN  /\ cardinalities.node_type = [i \in DOMAIN nodes |-> nodes[i]["Node Type"]]
            /\ cardinalities.join_level = [i \in DOMAIN nodes |-> Level(nodes[i])]

\* a join above a join has been recorded with level 2, below it a leaf with 0
C2_Witness ==
    /\ Explained
    /\ raised = "none"
    /\ query_plan["Node Type"] = "Merge Join"
    /\ cardinalities.join_level = <<0, 1, 2>>

\* the root is an internal node under which nothing was recorded
BarrenRoot ==
    /\ "Plans" \in DOMAIN query_plan
    /\ NonAggregateCount(query_plan) = (IF IsRecorded(query_plan) THEN 1 ELSE 0)

\* C3: an internal node whose descendants produced no record is parsed
\* without error, its maximum descendant level taken to be 0.
C3_NoRecordBelowYieldsLevelZero ==
    (Explained /\ BarrenRoot) =>
        /\ raised = "none"
        /\ cardinalities.join_level =
              (IF ~IsRecorded(query_plan) THEN <<>>
               ELSE IF query_plan["Node Type"] \in {"Hash Join", "Nested Loop", "Merge Join"}
               THEN <<1>> ELSE <<0>>)

\* C4: after explain, max_join_level is the level of the plan's root.
C4_MaxJoinLevelIsRootLevel ==
    (Explained /\ raised = "none") => max_join_level = Some(Level(query_plan))

\* C9: a plan with a field missing on some node never yields a table.
C9_MalformedPlanRaises ==
    Explained => (raised # "none" /\ cardinalities = None)

Returned_q == pc = "q_returned"

Overestimated == RLess(q_actual, q_estimated)

MagnitudeAtLeastOne ==
    /\ raised = "none"
    /\ IF Overestimated THEN RLeq(Whole(1), q_value) ELSE RLeq(q_value, Whole(-1))

\* C5 as stated: for all non-negative estimated and actual, q_error is >= 1
\* on an overestimation and <= -1 otherwise.
C5_MagnitudeAtLeastOne == Returned_q => MagnitudeAtLeastOne

\* C5 as amended: the same, for arguments of which the larger is at least 1.
C5_MagnitudeAtLeastOneFromOne ==
    (Returned_q /\ RLeq(Whole(1), RMax(q_estimated, q_actual))) => MagnitudeAtLeastOne

\* an estimate below 1 against an actual above it
C5_Witness ==
    /\ Returned_q
    /\ q_estimated = Rat(1, 2)
    /\ q_actual = Whole(3)
    /\ q_value = Whole(-3)

\* C6: q_error raises nothing; its value times max(actual, 1) is estimated
\* on an overestimation, and minus its value times max(estimated, 1) is
\* actual otherwise; the four examples have the values 10, -10, -50, -1.
C6_QErrorFormula ==
    Returned_q =>
        /\ raised = "none"
        /\ Overestimated =>
              RMul(q_value, IF RLess(q_actual, Whole(1)) THEN Whole(1) ELSE q_actual)
                  = q_estimated
        /\ ~Overestimated =>
              RMul(RMul(q_value, Whole(-1)),
                   IF RLess(q_estimated, Whole(1)) THEN Whole(1) ELSE q_estimated)
                  = q_actual
        /\ (q_estimated = Whole(100) /\ q_actual = Whole(10)) => q_value = Whole(10)
        /\ (q_estimated = Whole(10) /\ q_actual = Whole(100)) => q_value = Whole(-10)
        /\ (q_estimated = Whole(0) /\ q_actual = Whole(50)) => q_value = Whole(-50)
        /\ (q_estimated = q_actual /\ RLeq(Whole(1), q_actual)) => q_value = Whole(-1)

\* the zero estimate of the examples
C6_Witness ==
    /\ Returned_q
    /\ q_estimated = Whole(0)
    /\ q_actual = Whole(50)
    /\ q_value = Whole(-50)

Compared == pc = "compared"

run_a == query_results[1]

run_b == query_results[2]

SharedIndexes == {i \in DOMAIN run_a : run_a[i].name \in Keys(run_b)}

\* the k-th smallest element of a set of numbers
RECURSIVE Nth(_, _)
Nth(S, k) ==
    LET least == CHOOSE x \in S : \A y \in S : x <= y
    IN  IF k = 1 THEN least ELSE Nth(S \ {least}, k - 1)

\* the ratio of every shared identifier, in the order run_a holds them
RatiosOfShared ==
    [k \in 1..Cardinality(SharedIndexes) |->
        LET i == Nth(SharedIndexes, k)
        IN  [num |-> run_a[i].time.num * Lookup(run_b, run_a[i].name).den,
             den |-> run_a[i].time.den * Lookup(run_b, run_a[i].name).num]]

SameNumbers(l, m) ==
    /\ Len(l) = Len(m)
    /\ \A i \in DOMAIN l : l[i].num * m[i].den = m[i].num * l[i].den /\ l[i].den # 0

\* C7 as stated: compare_query_times raises nothing and returns one ratio
\* run_a[id] / run_b[id] for each identifier in both mappings, in the
\* insertion order of run_a.
C7_OneRatioPerSharedId ==
    pc \in {"compared", "exit"} =>
        /\ raised = "none"
        /\ SameNumbers(ratios[1], RatiosOfShared)

NoZeroDivisor == \A i \in SharedIndexes : Lookup(run_b, run_a[i].name).num # 0

RunsOfExample ==
    /\ run_a = <<Item("q1", 2), Item("q2", 4)>>
    /\ run_b = <<Item("q1", 1), Item("q3", 9)>>

\* C7 as amended: the same, when run_b holds the time 0 for no shared
\* identifier; the runs of the example give [2.0].
C7_OneRatioPerSharedIdNoZero ==
    (pc \in {"compared", "exit"} /\ NoZeroDivisor) =>
        /\ raised = "none"
        /\ Compared
        /\ SameNumbers(ratios[1], RatiosOfShared)
        /\ RunsOfExample => ratios[1] = <<Whole(2)>>

\* the example has been compared
C7_Witness == Compared /\ RunsOfExample /\ ratios = <<(<<Whole(2)>>)>>

Plotted == pc = "plotted"

\* the six buckets as pairs of edges, in tenths; the last has no upper edge
BucketEdges == <<(<<3, 9>>), (<<9, 11>>), (<<11, 20>>), (<<20, 100>>), (<<100, 1000>>)>>

InBucket(r, b) ==
    IF b = 6 THEN 1000 * r.den <= 10 * r.num
    ELSE /\ BucketEdges[b][1] * r.den <= 10 * r.num
         /\ 10 * r.num < BucketEdges[b][2] * r.den

BucketCount(b) == Cardinality({j \in DOMAIN ratios[1] : InBucket(ratios[1][j], b)})

\* C8: for a non-empty collection of N ratios, the percentage of each of the
\* six buckets is 100 times the number of ratios r with lower edge <= r <
\* upper edge, over N; ratios below 0.3 count nowhere; the six percentages
\* sum to at most 100; [0.5, 1.0, 1.0, 50.0] gives 25, 50, 0, 0, 25, 0.
C8_BucketPercentages ==
    (Plotted /\ ratios[1] # <<>>) =>
        LET N == Len(ratios[1])
        IN  /\ Len(proportions) = 6
            /\ \A b \in 1..6 :
                  /\ proportions[b].den > 0
                  /\ proportions[b].num * N = 100 * BucketCount(b) * proportions[b].den
            /\ SeqSum([b \in 1..6 |-> proportions[b].num * (N \div proportions[b].den)])
                  <= 100 * N
            /\ (\A j \in DOMAIN ratios[1] : 10 * ratios[1][j].num < 3 * ratios[1][j].den)
                  => \A b \in 1..6 : proportions[b] = Whole(0)
            /\ ratios[1] = <<Rat(1, 2), Whole(1), Whole(1), Whole(50)>>
                  => proportions = <<Whole(25), Whole(50), Whole(0), Whole(0),
                                     Whole(25), Whole(0)>>

\* the example, with a ratio on an edge in it
C8_Witness ==
    /\ Plotted
    /\ ratios[1] = <<Rat(2, 10), Rat(9, 10), Whole(1), Whole(50)>>
    /\ proportions = <<Whole(0), Whole(50), Whole(0), Whole(0), Whole(25), Whole(0)>>

\* C10: no statistic is ever printed for an empty collection of ratios, and
\* the summary of one ends in an error.
C10_NoStatisticOfEmptyRatios ==
    (pc \in {"main_print", "exit"} /\ ratios # None) =>
        \A i \in DOMAIN printed :
            ratios[(i - 1) \div 4 + 1] = <<>> => "value" \notin DOMAIN printed[i]

KnownSelector == tree_shape \in {"default", "left", "right", "zig-zag"}

IsSet(statement) == statement.prefix = "SET pg_hint_plan.dp_tree_shape to "

\* C11: with a selector other than default, left, right, zig-zag no statement
\* is ever issued on the connection and no mapping is returned; with one of
\* the four, the first statement issued is the SET of that tree shape, and
\* every EXPLAIN comes after it.
C11_UnknownSelectorIssuesNothing ==
    /\ ~KnownSelector =>
          /\ statements = <<>>
          /\ query_results = None
          /\ pc # "run_returned"
    /\ KnownSelector =>
          /\ statements # <<>> =>
                /\ IsSet(statements[1])
                /\ statements[1].text = tree_shape \o ";"
          /\ \A i \in DOMAIN statements : ~IsSet(statements[i]) => i > 1
          /\ (local_results # None /\ local_results # <<>>) => IsSet(statements[1])

\* an unknown selector has ended the process after the connection was opened
C11_Witness ==
    /\ pc = "os_exit"
    /\ tree_shape = "bushy"
    /\ queries # <<>>
    /\ connection = "open"
    /\ statements = <<>>

====
